---- MODULE Spec2Model ----
(***************************************************************************)
(* A model of toy-mako (src/src/main.rs): compile = build + generate, and  *)
(* the execution of the bundle that generate writes.                       *)
(*                                                                         *)
(* Paths (PathBuf) are sequences of components, strings are the joined     *)
(* text.  The project on disk is three source files under one root        *)
(* directory; the root may be handed to compile through a symbolic link,   *)
(* which the resolver (oxc_resolver, symlinks on by default) resolves and  *)
(* root.join("index.ts") does not.                                         *)
(***************************************************************************)
EXTENDS Integers, Sequences, FiniteSets, TLC

\* Largest number of import and `export * from` declarations, of distinct
\* sources, in one source file.
MaxDecls == 2

VARIABLES
    root,           \* CompileParams.root
    fs,             \* the files on disk: physical path -> content
    pc,             \* build, generate, write, run, done, aborted, thrown
    error,          \* the panic or exception that ended the process, "" when none
    build_queue,    \* BuildQueue.queue (a Vec used as a stack)
    module_graph,   \* ModuleGraph.modules: key string -> Module
    processed,      \* history: keys whose module was loaded and inserted
    reprocessed,    \* history: keys loaded and inserted a second time
    module_paths,   \* generate: the graph keys its loop has yet to visit
    runtime_modules,\* Runtime.modules: key string -> generated code
    bundle,         \* generate: the rendered bundle text, <<>> before render
    dist,           \* root/dist/bundle.js on disk: "absent" or "written"
    script,         \* bundle execution: the statements still to execute
    modules,        \* bundle execution: `modules`, name -> factory
    moduleCache,    \* bundle execution: `moduleCache`, name -> module record
    stack,          \* bundle execution: the call stack, innermost frame last
    invoked,        \* history: names whose factory was invoked
    reinvoked       \* history: names whose factory was invoked a second time

buildVars == <<build_queue, module_graph, processed, reprocessed>>
genVars == <<module_paths, runtime_modules, bundle, dist>>
runVars == <<script, modules, moduleCache, stack, invoked, reinvoked>>
vars == <<root, fs, pc, error, buildVars, genVars, runVars>>

-----------------------------------------------------------------------------
\* Paths and strings

RECURSIVE Join(_)
\* PathBuf::to_string_lossy().to_string(): the components joined by "/".
Join(p) == IF Len(p) = 0 THEN ""
           ELSE IF Len(p) = 1 THEN p[1]
           ELSE p[1] \o "/" \o Join(Tail(p))

ToStringLossy(path) == Join(path)

\* The directory the project really lives in, and a symbolic link to it.
RealRoot == <<"root">>
LinkRoot == <<"link">>
Roots == {RealRoot, LinkRoot}

\* The physical files a project may hold.
PhysFiles == { <<"root", "index.ts">>, <<"root", "a.ts">>, <<"root", "sub", "b.ts">> }

\* The import specifiers a source file may write, as path components.
Specifiers == { <<".", "index">>, <<".", "a">>, <<".", "sub", "b">>,
                <<"..", "index">>, <<"..", "a">> }

SpecifierTexts == { Join(s) : s \in Specifiers }

\* A specifier string split back into its components.
SplitTable == [text \in SpecifierTexts |-> CHOOSE s \in Specifiers : Join(s) = text]

Split(text) == SplitTable[text]

\* The sources a file may name in an `export * from` declaration.
ReexportTexts == { Join(<<".", "a">>) }

\* What a file on disk can be: absent, unparsable, or a module with import
\* declarations and `export * from` declarations.
Contents ==
    { [kind |-> "missing", imports |-> {}, reexports |-> {}],
      [kind |-> "invalid", imports |-> {}, reexports |-> {}] }
    \cup { c \in [kind : {"module"}, imports : SUBSET SpecifierTexts,
                    reexports : SUBSET ReexportTexts] :
             Cardinality(c.imports) + Cardinality(c.reexports) <= MaxDecls }

\* path.parent()
Parent(path) == SubSeq(path, 1, Len(path) - 1)

\* root.join("index.ts")
EntryPath(r) == r \o <<"index.ts">>

RECURSIVE Normalize(_, _)
\* Lexical normalisation of a joined path: "." is dropped, ".." pops.
Normalize(acc, rest) ==
    IF rest = <<>> THEN acc
    ELSE IF Head(rest) = "." THEN Normalize(acc, Tail(rest))
    ELSE IF Head(rest) = ".." /\ acc # <<>> /\ acc[Len(acc)] # ".."
         THEN Normalize(Parent(acc), Tail(rest))
    ELSE Normalize(Append(acc, Head(rest)), Tail(rest))

\* The real path of a path: the link to the root directory is followed.
RealPath(p) ==
    IF Len(p) > 0 /\ <<Head(p)>> = LinkRoot THEN RealRoot \o Tail(p) ELSE p

\* The path with the extension appended to its last component.
WithExtension(p, ext) ==
    IF p = <<>> THEN p ELSE Append(Parent(p), p[Len(p)] \o ext)

\* A regular file exists at this path (symbolic links followed).
FileExists(p) == RealPath(p) \in PhysFiles /\ fs[RealPath(p)].kind # "missing"

\* The failure of resolver.resolve(..): no path.
NotFound == <<>>

\* resolve(path, dep): the importer's directory joined with the specifier,
\* tried as written and then with the ".ts" extension; the result is the
\* real path of the file found (Resolution::full_path).
resolve(path, dep) ==
    LET joined == Normalize(<<>>, Parent(path) \o Split(dep))
        withTs == WithExtension(joined, ".ts")
    IN  IF FileExists(joined) THEN RealPath(joined)
        ELSE IF FileExists(withTs) THEN RealPath(withTs)
        ELSE NotFound

\* load(path): the file's content, read through symbolic links.
load(path) == fs[RealPath(path)]

\* parse(content, path, context): the syntax tree of a file that parses.  Of
\* the tree the model keeps the sources of its import declarations (the
\* build keys a HashMap by them, so repeats collapse: a set), the sources of
\* its `export * from` declarations, and the passes the tree has been
\* through, each of which rewrites it in place.
parse(content) ==
    [imports |-> content.imports, reexports |-> content.reexports, passes |-> << >>]

\* transform(ast, context): the build-time pass, chain!(resolver, preset_env).
transform(ast) == [ast EXCEPT !.passes = @ \o <<"resolver", "preset_env">>]

\* analyze_deps(ast): the sources of the ModuleDecl::Import items, and of no
\* other module declaration.
analyze_deps(ast) == ast.imports

-----------------------------------------------------------------------------
\* Build stage

\* All orders in which a HashMap can yield the entries of `keys`.
RECURSIVE Orders(_)
Orders(keys) ==
    IF keys = {} THEN { <<>> }
    ELSE UNION { { <<k>> \o rest : rest \in Orders(keys \ {k}) } : k \in keys }

\* Mutant of AlreadyInGraph: the dedup check of line 64 left out.
AlreadyInGraphNever(path) == FALSE

\* line 64: module_graph.modules.contains_key(&path.to_string_lossy())
AlreadyInGraph(path) == ToStringLossy(path) \in DOMAIN module_graph

\* lines 74-78: the specifier -> resolved path map of one module.
HashDeps(path, deps) == [dep \in deps |-> resolve(path, dep)]

\* Mutant of QueueExtend: the last resolved path is not enqueued.
QueueExtendButLast(queue, hash_deps, order) ==
    queue \o [i \in 1..(Len(order) - 1) |-> hash_deps[order[i]]]

\* line 86: build_queue.queue.extend(hash_deps.into_values()), in the order
\* `order` in which the HashMap yields its entries.
QueueExtend(queue, hash_deps, order) ==
    queue \o [i \in 1..Len(order) |-> hash_deps[order[i]]]

\* Mutant of BuildSkip: `break` where line 64 says `continue`.
BuildSkipBreak ==
    /\ pc = "build"
    /\ build_queue # <<>>
    /\ AlreadyInGraph(build_queue[Len(build_queue)])
    /\ build_queue' = << >>
    /\ UNCHANGED <<root, fs, pc, error, module_graph, processed, reprocessed, genVars, runVars>>

\* Mutant of BuildSkip: a path popped a second time has its module taken out
\* of the graph.
BuildSkipEvict ==
    /\ pc = "build"
    /\ build_queue # <<>>
    /\ AlreadyInGraph(build_queue[Len(build_queue)])
    /\ build_queue' = Parent(build_queue)
    /\ module_graph' =
         [k \in DOMAIN module_graph \ {ToStringLossy(build_queue[Len(build_queue)])} |->
            module_graph[k]]
    /\ UNCHANGED <<root, fs, pc, error, processed, reprocessed, genVars, runVars>>

\* line 63, 64: pop a path whose module is in the graph already: continue.
BuildSkip ==
    /\ pc = "build"
    /\ build_queue # <<>>
    /\ AlreadyInGraph(build_queue[Len(build_queue)])
    /\ build_queue' = Parent(build_queue)
    /\ UNCHANGED <<root, fs, pc, error, module_graph, processed, reprocessed, genVars, runVars>>

\* lines 63-70 panicking: load's unwrap (the file cannot be read) or
\* code_to_ast's unwrap (it does not parse).
BuildLoadFail ==
    /\ pc = "build"
    /\ build_queue # <<>>
    /\ LET path == build_queue[Len(build_queue)] IN
        /\ ~AlreadyInGraph(path)
        /\ \/ ~FileExists(path) /\ error' = "LoadError"
           \/ FileExists(path) /\ load(path).kind = "invalid" /\ error' = "ParseError"
    /\ pc' = "aborted"
    /\ build_queue' = Parent(build_queue)
    /\ UNCHANGED <<root, fs, module_graph, processed, reprocessed, genVars, runVars>>

\* Mutant of BuildResolveFail: the resolution error is noted and the loop
\* goes on to the next pending id.
BuildResolveFailContinue ==
    /\ pc = "build"
    /\ build_queue # <<>>
    /\ LET path == build_queue[Len(build_queue)] IN
        /\ ~AlreadyInGraph(path)
        /\ FileExists(path)
        /\ load(path).kind = "module"
        /\ \E dep \in analyze_deps(transform(parse(load(path)))) :
              resolve(path, dep) = NotFound
    /\ error' = "ResolutionError"
    /\ build_queue' = Parent(build_queue)
    /\ UNCHANGED <<root, fs, pc, module_graph, processed, reprocessed, genVars, runVars>>

\* lines 63-78 panicking: resolve's unwrap on a specifier that maps to no file.
BuildResolveFail ==
    /\ pc = "build"
    /\ build_queue # <<>>
    /\ LET path == build_queue[Len(build_queue)] IN
        /\ ~AlreadyInGraph(path)
        /\ FileExists(path)
        /\ load(path).kind = "module"
        /\ \E dep \in analyze_deps(transform(parse(load(path)))) :
              resolve(path, dep) = NotFound
    /\ pc' = "aborted"
    /\ error' = "ResolutionError"
    /\ build_queue' = Parent(build_queue)
    /\ UNCHANGED <<root, fs, module_graph, processed, reprocessed, genVars, runVars>>

\* lines 63-86: one full iteration: load, parse, transform, analyze_deps,
\* resolve, insert into the graph, extend the queue.
BuildModule ==
    /\ pc = "build"
    /\ build_queue # <<>>
    /\ LET path == build_queue[Len(build_queue)]
           key == ToStringLossy(path)
       IN
        /\ ~AlreadyInGraph(path)
        /\ FileExists(path)
        /\ load(path).kind = "module"
        /\ LET ast == transform(parse(load(path)))
               deps == analyze_deps(ast)
               hash_deps == HashDeps(path, deps)
           IN
            /\ \A dep \in deps : hash_deps[dep] # NotFound
            /\ module_graph' =
                 [k \in DOMAIN module_graph \cup {key} |->
                    IF k = key
                    THEN [ast |-> ast, deps |-> hash_deps]
                    ELSE module_graph[k]]
            /\ \E order \in Orders(deps) :
                 build_queue' = QueueExtend(Parent(build_queue), hash_deps, order)
        /\ processed' = processed \cup {key}
        /\ reprocessed' = reprocessed \cup ({key} \cap processed)
    /\ UNCHANGED <<root, fs, pc, error, genVars, runVars>>

\* lines 63, 88: the queue is empty: build returns the graph to compile.
BuildReturn ==
    /\ pc = "build"
    /\ build_queue = <<>>
    /\ pc' = "generate"
    /\ module_paths' = DOMAIN module_graph
    /\ UNCHANGED <<root, fs, error, buildVars, runtime_modules, bundle, dist, runVars>>

-----------------------------------------------------------------------------
\* Generate stage

\* replace_deps(ast, deps): the source of every ModuleDecl::Import that is a
\* key of deps is replaced by the string of the path it resolved to.
replace_deps(ast, deps) ==
    [ast EXCEPT !.imports =
        { IF src \in DOMAIN deps THEN ToStringLossy(deps[src]) ELSE src :
            src \in ast.imports }]

\* Mutant of tramsform_again: the generate-time pass runs the folders of the
\* build-time pass again before its own.
tramsform_againRenormalizing(ast) ==
    [ast EXCEPT !.passes = @ \o <<"resolver", "preset_env", "inject_helpers", "common_js">>]

\* tramsform_again(ast, context): inject_helpers and common_js: the import
\* and `export * from` declarations become require(source) calls.
tramsform_again(ast) == [ast EXCEPT !.passes = @ \o <<"inject_helpers", "common_js">>]

\* ast_to_code(ast, context): the module's text; what the loader sees of it
\* is the names it requires.
ast_to_code(ast) == [requires |-> ast.imports \cup ast.reexports]

\* lines 170-176: one iteration of generate's loop.  module_paths is in the
\* order of HashMap::keys(), which is any order.
GenerateModule ==
    /\ pc = "generate"
    /\ \E path \in module_paths :
        LET module == module_graph[path]
            ast == tramsform_again(replace_deps(module.ast, module.deps))
        IN
        /\ module_graph' = [module_graph EXCEPT ![path].ast = ast]
        /\ runtime_modules' =
             [k \in DOMAIN runtime_modules \cup {path} |->
                IF k = path THEN ast_to_code(ast) ELSE runtime_modules[k]]
        /\ module_paths' = module_paths \ {path}
    /\ UNCHANGED <<root, fs, pc, error, build_queue, processed, reprocessed,
                   bundle, dist, runVars>>

\* lines 192-217: the text of the runtime loader, the bundle's first
\* statements.
Preamble == [op |-> "preamble", name |-> "", code |-> [requires |-> {}]]

\* Mutant of render: the bootstrap require is pushed before the defines.
renderBootstrapFirst(table, order, r) ==
    << Preamble,
       [op |-> "requireModule", name |-> ToStringLossy(EntryPath(r)),
        code |-> [requires |-> {}]] >>
    \o [i \in 1..Len(order) |->
          [op |-> "define", name |-> order[i], code |-> table[order[i]]]]

\* Mutant of render: the entry the table yields last gets no define.
renderButLast(table, order, r) ==
    << Preamble >> \o
    [i \in 1..(Len(order) - 1) |->
        [op |-> "define", name |-> order[i], code |-> table[order[i]]]]
    \o << [op |-> "requireModule", name |-> ToStringLossy(EntryPath(r)),
           code |-> [requires |-> {}]] >>

\* Runtime::render, lines 190-229: the preamble, one define per entry of the
\* table in the order `order`, then the bootstrap require.
render(table, order, r) ==
    << Preamble >> \o
    [i \in 1..Len(order) |->
        [op |-> "define", name |-> order[i], code |-> table[order[i]]]]
    \o << [op |-> "requireModule", name |-> ToStringLossy(EntryPath(r)),
           code |-> [requires |-> {}]] >>

\* Mutant of GenerateRender: the bundle is rendered and handed to the write
\* step while modules are still waiting for the loop of lines 170-176.
GenerateRenderEarly ==
    /\ pc = "generate"
    /\ \E order \in Orders(DOMAIN runtime_modules) :
         bundle' = render(runtime_modules, order, root)
    /\ pc' = "write"
    /\ UNCHANGED <<root, fs, error, buildVars, module_paths, runtime_modules,
                   dist, runVars>>

\* line 177: the loop is over, the bundle is rendered in memory.  The
\* defines come in the order in which the HashMap iterates: any order.
GenerateRender ==
    /\ pc = "generate"
    /\ module_paths = {}
    /\ \E order \in Orders(DOMAIN runtime_modules) :
         bundle' = render(runtime_modules, order, root)
    /\ pc' = "write"
    /\ UNCHANGED <<root, fs, error, buildVars, module_paths, runtime_modules,
                   dist, runVars>>

\* lines 179-181: dist/ is created and the text moved into bundle.js;
\* compile returns.  `node dist/bundle.js` then executes its statements.
GenerateWrite ==
    /\ pc = "write"
    /\ dist' = "written"
    /\ script' = bundle
    /\ bundle' = << >>
    /\ pc' = "run"
    /\ UNCHANGED <<root, fs, error, buildVars, module_paths, runtime_modules,
                   modules, moduleCache, stack, invoked, reinvoked>>

-----------------------------------------------------------------------------
\* The bundle executing: the runtime loader of lines 193-215

Top == stack[Len(stack)]

\* The names whose factory is on the stack.
Running == { stack[i].name : i \in { j \in 1..Len(stack) : stack[j].fn = "factory" } }

\* The number of requireModule calls on the stack.
RequireDepth == Cardinality({ j \in 1..Len(stack) : stack[j].fn = "requireModule" })

\* A call of requireModule(name), about to execute line 200.
RequireFrame(name) == [fn |-> "requireModule", name |-> name, at |-> "enter", todo |-> {}]

\* A call of the factory of `name`, with the requires its body still makes.
FactoryFrame(name) ==
    [fn |-> "factory", name |-> name, at |-> "body", todo |-> modules[name].requires]

\* Mutant of CacheHas: the cache is not consulted.
CacheHasNever(name) == FALSE

\* Mutant of CacheHas: a record counts only once its factory has returned.
CacheHasLoaded(name) ==
    name \in DOMAIN moduleCache /\ moduleCache[name].exports = "populated"

\* line 200: moduleCache.has(name)
CacheHas(name) == name \in DOMAIN moduleCache

\* Mutant of CacheSet: the record is not put in the cache before the call.
CacheSetSkipped(cache, name) == cache

\* lines 209-212: moduleCache.set(name, {exports: {}})
CacheSet(cache, name) ==
    [k \in DOMAIN cache \cup {name} |->
        IF k = name THEN [exports |-> "empty"] ELSE cache[k]]

\* lines 193-215, the preamble executes: `modules` and `moduleCache` are new,
\* empty Maps, define and requireModule are bound.
ExecPreamble ==
    /\ pc = "run"
    /\ stack = <<>>
    /\ script # <<>>
    /\ Head(script).op = "preamble"
    /\ modules' = << >>
    /\ moduleCache' = << >>
    /\ script' = Tail(script)
    /\ UNCHANGED <<root, fs, pc, error, buildVars, genVars, stack, invoked, reinvoked>>

\* lines 194-196, a define(...) statement of the bundle: modules.set.
ExecDefine ==
    /\ pc = "run"
    /\ stack = <<>>
    /\ script # <<>>
    /\ Head(script).op = "define"
    /\ modules' = [k \in DOMAIN modules \cup {Head(script).name} |->
                     IF k = Head(script).name THEN Head(script).code ELSE modules[k]]
    /\ script' = Tail(script)
    /\ UNCHANGED <<root, fs, pc, error, buildVars, genVars, moduleCache, stack,
                   invoked, reinvoked>>

\* The bootstrap statement requireModule('<root>/index.ts') is called.
ExecBootstrap ==
    /\ pc = "run"
    /\ stack = <<>>
    /\ script # <<>>
    /\ Head(script).op = "requireModule"
    /\ stack' = << RequireFrame(Head(script).name) >>
    /\ script' = Tail(script)
    /\ UNCHANGED <<root, fs, pc, error, buildVars, genVars, modules, moduleCache,
                   invoked, reinvoked>>

\* lines 200-202: the name is cached: return the record's exports.
RequireCached ==
    /\ pc = "run"
    /\ stack # <<>>
    /\ Top.fn = "requireModule" /\ Top.at = "enter"
    /\ CacheHas(Top.name)
    /\ stack' = Parent(stack)
    /\ UNCHANGED <<root, fs, pc, error, buildVars, genVars, script, modules,
                   moduleCache, invoked, reinvoked>>

\* Mutant of RequireMissing: the registry is checked after the record was
\* put in the cache (lines 204-206 moved below line 212).
RequireMissingAfterSet ==
    /\ pc = "run"
    /\ stack # <<>>
    /\ Top.fn = "requireModule" /\ Top.at = "enter"
    /\ ~CacheHas(Top.name)
    /\ Top.name \notin DOMAIN modules
    /\ moduleCache' = CacheSet(moduleCache, Top.name)
    /\ pc' = "thrown"
    /\ error' = "ModuleDoesNotExist"
    /\ stack' = <<>>
    /\ UNCHANGED <<root, fs, buildVars, genVars, script, modules, invoked, reinvoked>>

\* lines 204-206: neither cached nor registered: throw; nothing catches it.
RequireMissing ==
    /\ pc = "run"
    /\ stack # <<>>
    /\ Top.fn = "requireModule" /\ Top.at = "enter"
    /\ ~CacheHas(Top.name)
    /\ Top.name \notin DOMAIN modules
    /\ pc' = "thrown"
    /\ error' = "ModuleDoesNotExist"
    /\ stack' = <<>>
    /\ UNCHANGED <<root, fs, buildVars, genVars, script, modules, moduleCache,
                   invoked, reinvoked>>

\* lines 208-212: the record is created and put in the cache.
RequireCreate ==
    /\ pc = "run"
    /\ stack # <<>>
    /\ Top.fn = "requireModule" /\ Top.at = "enter"
    /\ ~CacheHas(Top.name)
    /\ Top.name \in DOMAIN modules
    /\ moduleCache' = CacheSet(moduleCache, Top.name)
    /\ stack' = [stack EXCEPT ![Len(stack)].at = "invoke"]
    /\ UNCHANGED <<root, fs, pc, error, buildVars, genVars, script, modules,
                   invoked, reinvoked>>

\* line 213: moduleFactory(module, module.exports, requireModule)
RequireInvoke ==
    /\ pc = "run"
    /\ stack # <<>>
    /\ Top.fn = "requireModule" /\ Top.at = "invoke"
    /\ stack' = Append([stack EXCEPT ![Len(stack)].at = "return"], FactoryFrame(Top.name))
    /\ invoked' = invoked \cup {Top.name}
    /\ reinvoked' = reinvoked \cup ({Top.name} \cap invoked)
    /\ UNCHANGED <<root, fs, pc, error, buildVars, genVars, script, modules,
                   moduleCache>>

\* The factory body makes its next require(id) call.  The requires of a
\* module stand in its source order, which is any order of its imports.
FactoryRequire ==
    /\ pc = "run"
    /\ stack # <<>>
    /\ Top.fn = "factory"
    /\ \E id \in Top.todo :
         stack' = Append([stack EXCEPT ![Len(stack)].todo = Top.todo \ {id}],
                         RequireFrame(id))
    /\ UNCHANGED <<root, fs, pc, error, buildVars, genVars, script, modules,
                   moduleCache, invoked, reinvoked>>

\* The factory body ends: the module's exports are populated.
FactoryReturn ==
    /\ pc = "run"
    /\ stack # <<>>
    /\ Top.fn = "factory"
    /\ Top.todo = {}
    /\ moduleCache' = IF CacheHas(Top.name)
                      THEN [moduleCache EXCEPT ![Top.name].exports = "populated"]
                      ELSE moduleCache
    /\ stack' = Parent(stack)
    /\ UNCHANGED <<root, fs, pc, error, buildVars, genVars, script, modules,
                   invoked, reinvoked>>

\* line 214: return module.exports
RequireReturn ==
    /\ pc = "run"
    /\ stack # <<>>
    /\ Top.fn = "requireModule" /\ Top.at = "return"
    /\ stack' = Parent(stack)
    /\ UNCHANGED <<root, fs, pc, error, buildVars, genVars, script, modules,
                   moduleCache, invoked, reinvoked>>

\* The last statement has returned: the bundle has run.
ExecDone ==
    /\ pc = "run"
    /\ stack = <<>>
    /\ script = <<>>
    /\ pc' = "done"
    /\ UNCHANGED <<root, fs, error, buildVars, genVars, runVars>>

-----------------------------------------------------------------------------

Init ==
    /\ root \in Roots
    /\ fs \in [PhysFiles -> Contents]
    /\ pc = "build"
    /\ error = ""
    /\ build_queue = << EntryPath(root) >>
    /\ module_graph = << >>
    /\ processed = {}
    /\ reprocessed = {}
    /\ module_paths = {}
    /\ runtime_modules = << >>
    /\ bundle = << >>
    /\ dist = "absent"
    /\ script = << >>
    /\ modules = << >>
    /\ moduleCache = << >>
    /\ stack = << >>
    /\ invoked = {}
    /\ reinvoked = {}

BuildNext ==
    \/ BuildSkip
    \/ BuildLoadFail
    \/ BuildResolveFail
    \/ BuildModule
    \/ BuildReturn

GenerateNext ==
    \/ GenerateModule
    \/ GenerateRender
    \/ GenerateWrite

RunNext ==
    \/ ExecPreamble
    \/ ExecDefine
    \/ ExecBootstrap
    \/ RequireCached
    \/ RequireMissing
    \/ RequireCreate
    \/ RequireInvoke
    \/ FactoryRequire
    \/ FactoryReturn
    \/ RequireReturn
    \/ ExecDone

Next == BuildNext \/ GenerateNext \/ RunNext

Spec == Init /\ [][Next]_vars

\* build alone.  Its loop is sequential code that always takes its next
\* step: weak fairness of the loop's steps.
BuildSpec == Init /\ [][BuildNext]_vars /\ WF_vars(BuildNext)

-----------------------------------------------------------------------------
\* What the files on disk determine, computed without the build loop

\* The paths a key string can stand for.
AllPaths == PhysFiles \cup { EntryPath(r) : r \in Roots }

\* The path whose string is the key k.
PathTable ==
    [k \in { ToStringLossy(p) : p \in AllPaths } |->
        CHOOSE p \in AllPaths : ToStringLossy(p) = k]

PathOf(k) == PathTable[k]

\* The physical file a key addresses.
FileOf(k) == RealPath(PathOf(k))

\* The import sources of the file at path p, none if it is no module.
ImportsOf(p) ==
    IF FileExists(p) /\ load(p).kind = "module" THEN load(p).imports ELSE {}

RECURSIVE Closure(_, _)
\* The least set of paths that holds `done` and `new` and every path an
\* import of a member resolves to; the imports of `done` lead into the two.
Closure(done, new) ==
    IF new = {} THEN done
    ELSE LET found == UNION { { resolve(p, dep) : dep \in ImportsOf(p) } : p \in new }
             seen == done \cup new
         IN  Closure(seen, found \ (seen \cup {NotFound}))

\* The paths reachable from the entry through resolved imports.
Reachable == Closure({}, { EntryPath(root) })

\* Every reachable file loads and parses and every import of it resolves.
Resolvable ==
    \A p \in Reachable :
        /\ FileExists(p)
        /\ load(p).kind = "module"
        /\ \A dep \in load(p).imports : resolve(p, dep) # NotFound

\* The keys of the modules that module k imports.
DepKeys(k) ==
    { ToStringLossy(module_graph[k].deps[d]) : d \in DOMAIN module_graph[k].deps }

\* build has just returned its graph to compile.
Built == pc = "generate" /\ module_paths = DOMAIN module_graph /\ runtime_modules = << >>

-----------------------------------------------------------------------------
\* The ids that are not keys of the graph: finitely many, the id space being
\* bounded by the files on disk.
Unbuilt == { ToStringLossy(p) : p \in AllPaths } \ DOMAIN module_graph

\* An iteration of build's loop makes a new id a key of the graph, or leaves
\* the graph as it is and shortens the queue.
BuildProgress ==
    pc = "build" /\ pc' = "build" =>
        \/ Cardinality(Unbuilt') < Cardinality(Unbuilt)
        \/ Unbuilt' = Unbuilt /\ Len(build_queue') < Len(build_queue)

\* C1: for files whose imports all load, parse and resolve, build terminates,
\* cycles or not: every iteration of the loop decreases the pair (ids not in
\* the graph, queue length), which cannot decrease for ever; no iteration
\* aborts; and the loop is left only with an empty queue, the graph being
\* returned.
BuildTerminates ==
    [][ /\ BuildProgress
        /\ pc' = "aborted" => ~Resolvable
        /\ pc' = "generate" => build_queue' = << >> ]_vars

\* Witness of C1: build has returned a graph in which two modules import
\* each other and one imports itself.
BuildReturnedCyclic ==
    /\ pc = "generate"
    /\ \E k1, k2 \in DOMAIN module_graph :
          k1 # k2 /\ k2 \in DepKeys(k1) /\ k1 \in DepKeys(k2)
    /\ \E k \in DOMAIN module_graph : k \in DepKeys(k)

\* C2: when build returns, the graph's keys are exactly the ids reachable
\* from the entry through resolved imports: every id a dependency map holds
\* is a key, and every key is the entry or reachable from it.
GraphIsClosure ==
    Built =>
        /\ \A k \in DOMAIN module_graph : DepKeys(k) \subseteq DOMAIN module_graph
        /\ DOMAIN module_graph = { ToStringLossy(p) : p \in Reachable }

\* Witness of C2: build has returned a graph of all three files, one of
\* them reached only through another.
BuildReturnedThree ==
    /\ pc = "generate"
    /\ Cardinality(DOMAIN module_graph) >= Cardinality(PhysFiles)
    /\ \E k \in DOMAIN module_graph :
          /\ k # ToStringLossy(EntryPath(root))
          /\ k \notin DepKeys(ToStringLossy(EntryPath(root)))

\* C8: during build no id is loaded, parsed, analysed and inserted into the
\* graph a second time.
ProcessedOnce == reprocessed = {}

\* Witness of C8: the loop has popped an id that is in the graph already,
\* after two modules imported it.
PoppedAgain ==
    /\ pc = "build"
    /\ build_queue # << >>
    /\ AlreadyInGraph(build_queue[Len(build_queue)])
    /\ \E k1, k2 \in DOMAIN module_graph :
          /\ k1 # k2
          /\ ToStringLossy(build_queue[Len(build_queue)]) \in DepKeys(k1) \cap DepKeys(k2)

\* C9: the order in which pending ids are taken does not affect a successful
\* build: whatever order the queue was filled and emptied in, the graph that
\* is returned is the one the files determine, keys and dependency maps.
ExpectedGraph ==
    [k \in { ToStringLossy(p) : p \in Reachable } |->
        HashDeps(PathOf(k), ImportsOf(PathOf(k)))]

OrderIndependent ==
    Built =>
        LET expected == ExpectedGraph IN
        /\ DOMAIN module_graph = DOMAIN expected
        /\ \A k \in DOMAIN module_graph : module_graph[k].deps = expected[k]

\* Witness of C9: build has returned after a module with two imports of
\* different files left it the choice of which to process first.
BuildReturnedBranching ==
    /\ pc = "generate"
    /\ \E k \in DOMAIN module_graph :
          \E k1, k2 \in DepKeys(k) \ {k} : k1 # k2

\* C3: require(id) for an uncached, registered id puts the record
\* {exports: {}} in the cache before it invokes the factory: whenever the
\* factory of id is about to run or running, the cache holds a record for id.
CachedBeforeFactory ==
    \A i \in 1..Len(stack) :
        \/ stack[i].fn = "factory"
        \/ stack[i].fn = "requireModule" /\ stack[i].at = "invoke"
        => stack[i].name \in DOMAIN moduleCache

\* Witness of C3: a factory is running, its exports not yet populated.
FactoryRunning ==
    /\ pc = "run"
    /\ stack # << >>
    /\ Top.fn = "factory"
    /\ moduleCache[Top.name].exports = "empty"

\* The bundle requires modules through import declarations only.
ImportsOnly == \A k \in DOMAIN module_graph : module_graph[k].ast.reexports = {}

\* requireModule is entered for a module whose factory is still running.
ReentrantRequire ==
    /\ pc = "run"
    /\ stack # << >>
    /\ Top.fn = "requireModule"
    /\ Top.at = "enter"
    /\ Top.name \in Running

\* The step a re-entrant require takes: it returns at once, the record's
\* exports still partially populated, and no factory is invoked.
ReentrantReturns ==
    ReentrantRequire =>
        /\ moduleCache[Top.name].exports = "empty"
        /\ stack' = Parent(stack)
        /\ UNCHANGED <<pc, moduleCache, invoked, reinvoked>>

\* The number of requireModule calls on the stack that went past the cache
\* check of line 200.
PastCacheCheck ==
    Cardinality({ j \in 1..Len(stack) :
        stack[j].fn = "requireModule" /\ stack[j].at # "enter" })

FactoryOnce ==
    /\ reinvoked = {}
    /\ invoked \subseteq DOMAIN moduleCache
    /\ pc = "done" => invoked = DOMAIN modules

\* Witness of C5: a module whose factory has returned is required again.
RequiredAgain ==
    /\ pc = "run"
    /\ stack # << >>
    /\ Top.fn = "requireModule"
    /\ Top.at = "enter"
    /\ Top.name \in invoked \ Running

\* The keys of the graph that address the entry file.
EntryKeys == { k \in DOMAIN module_graph : FileOf(k) = RealPath(EntryPath(root)) }

\* C6 as claimed: when two distinct specifiers written in two different
\* modules address the same file, both resolve to the same id and the graph
\* build returns holds exactly one node for that file.
SameFileOneNode ==
    Built =>
        \A k1, k2 \in DOMAIN module_graph :
            \A d1 \in DOMAIN module_graph[k1].deps, d2 \in DOMAIN module_graph[k2].deps :
                /\ FileOf(k1) # FileOf(k2)
                /\ d1 # d2
                /\ RealPath(module_graph[k1].deps[d1]) = RealPath(module_graph[k2].deps[d2])
                => /\ module_graph[k1].deps[d1] = module_graph[k2].deps[d2]
                   /\ Cardinality({ k \in DOMAIN module_graph :
                         FileOf(k) = RealPath(module_graph[k1].deps[d1]) }) = 1

\* C7 as claimed: the entry module has exactly one key in the graph, the id
\* the resolver returns when another module imports the entry file.
EntrySingleKey ==
    Built =>
        \A k \in DOMAIN module_graph : \A d \in DOMAIN module_graph[k].deps :
            RealPath(module_graph[k].deps[d]) = RealPath(EntryPath(root))
            => EntryKeys = { ToStringLossy(module_graph[k].deps[d]) }

\* C10: build is fail-fast: a load, parse or resolution failure aborts the
\* compile at once, with no graph returned, no generation and no output
\* written; a graph is returned only when nothing reachable fails.
FailFast ==
    /\ error \in {"LoadError", "ParseError", "ResolutionError"} => pc = "aborted"
    /\ pc = "aborted" =>
          /\ error \in {"LoadError", "ParseError", "ResolutionError"}
          /\ module_paths = {}
          /\ runtime_modules = << >>
          /\ bundle = << >>
          /\ dist = "absent"
          /\ script = << >>
    /\ Built => Resolvable

\* Witness of C10: the compile was aborted by an unresolved import after
\* other modules had been put in the graph.
AbortedPartway ==
    /\ pc = "aborted"
    /\ error = "ResolutionError"
    /\ module_graph # << >>

-----------------------------------------------------------------------------
\* Generate: claims

\* The passes a tree has been through when build has put it in the graph,
\* and when generate has emitted it.
BuiltPasses == <<"resolver", "preset_env">>
GeneratedPasses == <<"resolver", "preset_env", "inject_helpers", "common_js">>

\* Every module of the graph has been through replace_deps, tramsform_again
\* and ast_to_code, and the bundle in memory is the rendering of the table.
AllEmittedAndRendered ==
    /\ module_paths = {}
    /\ DOMAIN runtime_modules = DOMAIN module_graph
    /\ \A k \in DOMAIN module_graph :
          /\ module_graph[k].ast.passes = GeneratedPasses
          /\ runtime_modules[k] = ast_to_code(module_graph[k].ast)
    /\ \E order \in Orders(DOMAIN runtime_modules) :
          bundle = render(runtime_modules, order, root)

\* C11: dist/bundle.js is created or overwritten only by a step that starts
\* with every module of the graph rewritten, transformed and emitted and the
\* whole bundle rendered in memory, and what is written is that bundle; a
\* compile that fails leaves dist/ as it was at every step, the failing one
\* included.
WriteAfterRender ==
    [][ /\ dist' # dist =>
              /\ pc = "write"
              /\ error = ""
              /\ AllEmittedAndRendered
              /\ script' = bundle
        /\ pc' = "aborted" => dist' = dist /\ dist = "absent" ]_vars

\* Witness of C11: the bundle of a graph of two modules or more has just
\* been written, nothing of it executed yet.
BundleJustWritten ==
    /\ pc = "run"
    /\ dist = "written"
    /\ Cardinality(DOMAIN runtime_modules) >= 2
    /\ Len(script) = Cardinality(DOMAIN runtime_modules) + 2

-----------------------------------------------------------------------------
\* Build: the graph and the queue

\* C12: the graph grows monotonically during build: a step of the loop keeps
\* every key of the graph, with the module and dependency map stored for it
\* unchanged, and adds at most the one module it processed.
GraphMonotone ==
    [][ pc = "build" =>
          /\ DOMAIN module_graph \subseteq DOMAIN module_graph'
          /\ \A k \in DOMAIN module_graph : module_graph'[k] = module_graph[k]
          /\ Cardinality(DOMAIN module_graph' \ DOMAIN module_graph) <= 1 ]_vars

\* Witness of C12: the loop has put a second module in the graph, and the
\* queue holds a path whose module is in the graph and one whose is not.
GraphGrewThenSkipped ==
    /\ pc = "build"
    /\ Cardinality(DOMAIN module_graph) >= 2
    /\ build_queue # << >>
    /\ \E i \in 1..Len(build_queue) : ~AlreadyInGraph(build_queue[i])
    /\ \E i \in 1..Len(build_queue) : AlreadyInGraph(build_queue[i])

\* The queue holds no path twice.
NoDuplicates(queue) ==
    \A i, j \in 1..Len(queue) : queue[i] = queue[j] => i = j

\* The paths a loop step has appended to the queue: after the pop of line
\* 63, the positions from the old last one on.
Enqueued == { build_queue'[i] : i \in Len(build_queue)..Len(build_queue') }

\* C13 as claimed: the BuildQueue is deduplicated: in every state of build
\* it holds no id more than once, and a loop step enqueues a resolved id
\* only when the id is not a key of the graph.
QueueDeduplicated ==
    [][ pc = "build" /\ build_queue # << >> =>
          /\ NoDuplicates(build_queue')
          /\ \A path \in Enqueued : ToStringLossy(path) \notin DOMAIN module_graph' ]_vars

-----------------------------------------------------------------------------
\* The loader: a require of an unregistered id

\* requireModule is entered for a name with no cached record and no
\* registered factory.
RequireOfUnknown ==
    /\ pc = "run"
    /\ stack # << >>
    /\ Top.fn = "requireModule"
    /\ Top.at = "enter"
    /\ Top.name \notin DOMAIN moduleCache
    /\ Top.name \notin DOMAIN modules

\* C14: require(id) for an id with no cached record and no registered
\* factory fails with the "module does not exist" error, and the failing
\* call adds nothing to the cache or to the registry and invokes no factory;
\* the loader throws that error in no other case.
MissingModuleThrows ==
    [][ /\ RequireOfUnknown =>
              /\ pc' = "thrown"
              /\ error' = "ModuleDoesNotExist"
              /\ UNCHANGED <<modules, moduleCache, invoked>>
        /\ pc' = "thrown" => RequireOfUnknown ]_vars

\* Witness of C14: a require made by a running factory has thrown, the
\* cache holding the records of the modules instantiated before.
ThrewModuleDoesNotExist ==
    /\ pc = "thrown"
    /\ error = "ModuleDoesNotExist"
    /\ moduleCache # << >>
    /\ \E k \in DOMAIN moduleCache : moduleCache[k].exports = "empty"

-----------------------------------------------------------------------------
\* Generate: the table and the bundle

\* The positions of the define statements in a bundle.
Defines(b) == { i \in 1..Len(b) : b[i].op = "define" }

\* generate's loop is over.
Generated == (pc = "generate" /\ module_paths = {}) \/ pc \in {"write", "run", "done", "thrown"}

\* C15: once generate has processed the graph, the table has one entry per
\* module of the graph, under the module's own key and holding that module's
\* code (while the loop runs: one per module processed); the rendered bundle
\* has exactly one define per table entry, wrapping that entry's code.
OneDefinePerModule ==
    /\ pc = "generate" => DOMAIN runtime_modules = DOMAIN module_graph \ module_paths
    /\ Generated =>
          /\ DOMAIN runtime_modules = DOMAIN module_graph
          /\ \A k \in DOMAIN runtime_modules :
                runtime_modules[k] = ast_to_code(module_graph[k].ast)
    /\ pc = "write" =>
          /\ \A k \in DOMAIN runtime_modules :
                Cardinality({ i \in Defines(bundle) : bundle[i].name = k }) = 1
          /\ \A i \in Defines(bundle) :
                /\ bundle[i].name \in DOMAIN runtime_modules
                /\ bundle[i].code = runtime_modules[bundle[i].name]

\* Witness of C15: the bundle of a graph of three modules or more, one of
\* them importing another, has been rendered.
RenderedThree ==
    /\ pc = "write"
    /\ Cardinality(DOMAIN runtime_modules) >= 3
    /\ \E k \in DOMAIN runtime_modules : runtime_modules[k].requires # {}

\* C16: in one compile the generate-time interop transform (inject_helpers,
\* common_js) is applied to each module of the graph exactly once, never a
\* second time, and generation never re-runs the build-time pass (resolver,
\* preset_env): a tree has been through the build-time pass once as long as
\* generate's loop has not visited it, and through the build-time pass once
\* and the interop transform once after that.
InteropOnce ==
    \A k \in DOMAIN module_graph :
        /\ pc \in {"build", "aborted"} \/ k \in module_paths =>
              module_graph[k].ast.passes = BuiltPasses
        /\ pc \notin {"build", "aborted"} /\ k \notin module_paths =>
              module_graph[k].ast.passes = GeneratedPasses

\* Witness of C16: generate's loop has visited one module of the graph and
\* has another still to visit.
GeneratingMidway ==
    /\ pc = "generate"
    /\ module_paths # {}
    /\ runtime_modules # << >>

\* C17: the rendered bundle is the preamble, then the define calls, all of
\* them, then exactly one bootstrap require, of the entry id, and nothing
\* after it; so, when the bundle executes, no require is called and no
\* factory invoked before every module of the table is registered.
DefinesBeforeBootstrap ==
    /\ pc = "write" =>
          LET n == Len(bundle) IN
          /\ n = Cardinality(DOMAIN runtime_modules) + 2
          /\ bundle[1] = Preamble
          /\ \A i \in 2..(n - 1) : bundle[i].op = "define"
          /\ bundle[n].op = "requireModule"
          /\ bundle[n].name = ToStringLossy(EntryPath(root))
    /\ stack # << >> \/ invoked # {} =>
          /\ DOMAIN modules = DOMAIN runtime_modules
          /\ script = << >>

\* Witness of C17: the bootstrap require has just been called, no factory
\* invoked yet, with the factories of two modules or more registered.
BootstrapCalled ==
    /\ pc = "run"
    /\ Len(stack) = 1
    /\ Top.fn = "requireModule"
    /\ Top.at = "enter"
    /\ invoked = {}
    /\ Cardinality(DOMAIN modules) >= 2

\* C18 as claimed: the order of the define calls in the rendered bundle is
\* deterministic: the text that render returns for a table is the same
\* whatever order the table's HashMap yields its entries in, so that two
\* compiles of the same project give the same bundle.
DefineOrderDeterministic ==
    [][ pc = "generate" /\ pc' = "write" =>
          \A order \in Orders(DOMAIN runtime_modules) :
              bundle' = render(runtime_modules, order, root) ]_vars

\* C19 as claimed: for every successful compile, every id the bundle can
\* pass to require is registered: the bootstrap id is a key of the table,
\* every id a module's code requires is a key of the table, and the bundle,
\* when it runs, never throws "module does not exist".
EveryRequireRegistered ==
    /\ pc = "write" =>
          /\ bundle[Len(bundle)].name \in DOMAIN runtime_modules
          /\ \A k \in DOMAIN runtime_modules :
                runtime_modules[k].requires \subseteq DOMAIN runtime_modules
    /\ pc = "run" /\ stack # << >> /\ Top.fn = "requireModule" =>
          Top.name \in DOMAIN modules
    /\ error # "ModuleDoesNotExist"

====
